---- MODULE Spec2Model ----
(***************************************************************************)
(* Snapshot persistence of a microVM: src/src/vmm/src/persist.rs.          *)
(*                                                                         *)
(* create_snapshot and restore_from_snapshot are modelled step by step,    *)
(* one action per I/O step of the handlers, over a file system holding the *)
(* two files of a snapshot (the memory backing file and the snapshot state *)
(* file).  The collaborators that persist.rs calls but does not define     *)
(* (Snapshot::save / Snapshot::load, the Versionize encoding, the memory   *)
(* dump, the product-version table) are modelled from the specification.   *)
(*                                                                         *)
(* Units: guest memory and the memory backing file are sequences of        *)
(* chunks; UnitsPerMiB chunks make one MiB, and one chunk is one page of   *)
(* the dirty bitmap.  A snapshot state file is a sequence of words.        *)
(***************************************************************************)
EXTENDS Integers, Sequences, FiniteSets, TLC

\* ------------------------------------------------------------------ bounds
MaxMemMiB == 1          \* guest memory sizes 1..MaxMemMiB MiB
MaxByte == 1            \* a chunk holds a value in 0..MaxByte
MaxDataVersion == 2     \* version maps have 1..MaxDataVersion data versions

\* --------------------------------------------------------- program constants
FC_V0_23_SNAP_VERSION == 1
FC_V0_23_IRQ_NUMBER == 16
IRQ_BASE == 5
FC_V0_23_MAX_DEVICES == FC_V0_23_IRQ_NUMBER - IRQ_BASE

\* 1024 * 1024 of snapshot_memory_to_file, in chunks: the model counts file
\* offsets and lengths in chunks of one MiB, the page of its dirty bitmap.
UnitsPerMiB == 1

\* -------------------------------------------------------------- small helpers
Max(a, b) == IF a > b THEN a ELSE b

Ones(n) == [i \in 1..n |-> 1]

\* The file at a path: absent, or present with its contents.
Absent == [exists |-> FALSE, data |-> <<>>]

File(d) == [exists |-> TRUE, data |-> d]

\* pwrite: `data` written at 0-based offset `off` of `file`; the file grows
\* when the write ends past its end, and keeps whatever lay beyond the write.
WriteAt(file, off, data) ==
    LET newLen == Max(Len(file), off + Len(data))
    IN [i \in 1..newLen |->
          IF i > off /\ i <= off + Len(data) THEN data[i - off]
          ELSE IF i <= Len(file) THEN file[i] ELSE 0]

\* Mutant: the set_len call is missing.
SetLenMissing(file, n) == file

\* File::set_len: cut, or extend with zeros.
SetLen(file, n) == [i \in 1..n |-> IF i <= Len(file) THEN file[i] ELSE 0]

\* ---------------------------------------------------------------- version map
\* A VersionMap is the chain of its data versions; element v is the schema
\* version of DeviceStates at data version v (the only type whose schema the
\* test of persist.rs redeclares).  VersionMap::new() is <<1>>; each
\* new_version() of the test sets DeviceStates to schema version 2.
VersionMapOfLen(n) == [v \in 1..n |-> IF v = 1 THEN 1 ELSE 2]

VersionMaps == {VersionMapOfLen(n) : n \in 1..MaxDataVersion}

latest_version(vmap) == Len(vmap)

type_version(vmap, v) == vmap[v]

\* FC_VERSION_TO_SNAP_VERSION.get(tag): <<data version>>, or <<>> for None.
FC_VERSION_TO_SNAP_VERSION(tag) ==
    CASE tag = "0.23" -> <<1>>
      [] tag = "0.24" -> <<2>>
      [] OTHER -> <<>>

Tags == {"0.23", "0.24", "0.99"}

\* Option<String>: <<>> is None, <<t>> is Some(t).
Versions == {<<>>} \cup {<<t>> : t \in Tags}

\* ------------------------------------------------------- Versionize encoding
\* Vec<T> and Option<T>: the length, then the elements (one word each).
EncVec(s) == <<Len(s)>> \o s

\* Mutant: below schema version 2 the balloon is left out without an error.
DeviceStatesSerializeDropping(d, tv) ==
    [ok |-> TRUE,
     words |-> <<Len(d.block_devices)>> \o d.block_devices
               \o <<Len(d.net_devices)>> \o d.net_devices
               \o <<Len(d.vsock_device)>> \o d.vsock_device
               \o (IF tv >= 2
                   THEN <<Len(d.balloon_device)>> \o d.balloon_device
                   ELSE <<>>)]

\* serialize(DeviceStates) at schema version tv.  The balloon field exists
\* from schema version 2 on; a state that holds a balloon cannot be written
\* at schema version 1 and the encoder reports it.
DeviceStatesSerialize(d, tv) ==
    IF tv < 2 /\ Len(d.balloon_device) > 0
    THEN [ok |-> FALSE, words |-> <<>>]
    ELSE [ok |-> TRUE,
          words |-> EncVec(d.block_devices) \o EncVec(d.net_devices)
                    \o EncVec(d.vsock_device)
                    \o (IF tv >= 2 THEN EncVec(d.balloon_device) ELSE <<>>)]

\* serialize(MicrovmState, vmap, data_version): the fields in declaration order.
MicrovmStateSerialize(m, vmap, v) ==
    LET dev == DeviceStatesSerialize(m.device_states, type_version(vmap, v))
    IN IF ~dev.ok THEN [ok |-> FALSE, words |-> <<>>]
       ELSE [ok |-> TRUE,
             words |-> <<m.vm_info.mem_size_mib>> \o EncVec(m.memory_state)
                       \o <<m.vm_state>> \o EncVec(m.vcpu_states) \o dev.words]

\* Reads a length-prefixed vector at position pos of s (1-based).
TakeVec(s, pos, maxLen) ==
    IF pos > Len(s) THEN [ok |-> FALSE, items |-> <<>>, next |-> pos]
    ELSE LET n == s[pos]
         IN IF n > maxLen \/ pos + n > Len(s)
            THEN [ok |-> FALSE, items |-> <<>>, next |-> pos]
            ELSE [ok |-> TRUE, items |-> SubSeq(s, pos + 1, pos + n),
                  next |-> pos + n + 1]

TakeWord(s, pos) ==
    IF pos > Len(s) THEN [ok |-> FALSE, items |-> <<>>, next |-> pos]
    ELSE [ok |-> TRUE, items |-> <<s[pos]>>, next |-> pos + 1]

NoState == [vm_info |-> [mem_size_mib |-> 0], memory_state |-> <<>>,
            vm_state |-> 0, vcpu_states |-> <<>>,
            device_states |-> [block_devices |-> <<>>, net_devices |-> <<>>,
                               vsock_device |-> <<>>, balloon_device |-> <<>>]]

\* deserialize(MicrovmState, vmap, data_version).  A field the schema version
\* does not hold gets its default (no balloon); words after the last field are
\* not looked at.
MicrovmStateDeserialize(s, vmap, v) ==
    LET tv == type_version(vmap, v)
        big == Len(s)
        f1 == TakeWord(s, 1)
        f2 == TakeVec(s, f1.next, big)
        f3 == TakeWord(s, f2.next)
        f4 == TakeVec(s, f3.next, big)
        d1 == TakeVec(s, f4.next, big)
        d2 == TakeVec(s, d1.next, big)
        d3 == TakeVec(s, d2.next, 1)
        d4 == IF tv >= 2 THEN TakeVec(s, d3.next, 1)
              ELSE [ok |-> TRUE, items |-> <<>>, next |-> d3.next]
    IN IF f1.ok /\ f2.ok /\ f3.ok /\ f4.ok /\ d1.ok /\ d2.ok /\ d3.ok /\ d4.ok
       THEN [ok |-> TRUE,
             state |-> [vm_info |-> [mem_size_mib |-> f1.items[1]],
                        memory_state |-> f2.items,
                        vm_state |-> f3.items[1],
                        vcpu_states |-> f4.items,
                        device_states |-> [block_devices |-> d1.items,
                                           net_devices |-> d2.items,
                                           vsock_device |-> d3.items,
                                           balloon_device |-> d4.items]]]
       ELSE [ok |-> FALSE, state |-> NoState]

\* ------------------------------------------------------------ snapshot framing
SNAPSHOT_MAGIC == 9

CrcModulus == 97

RECURSIVE WeightedSum(_, _)
WeightedSum(s, i) ==
    IF i > Len(s) THEN 0 ELSE (i + 1) * (s[i] + 1) + WeightedSum(s, i + 1)

\* The checksum over the words that precede it.
Crc(s) == WeightedSum(s, 1) % CrcModulus

\* The header Snapshot::save writes first: magic, then the data version.
SnapshotHeader(v) == <<SNAPSHOT_MAGIC, v>>

\* The whole byte stream of Snapshot::save for state m at data version v.
SnapshotWords(m, vmap, v) ==
    LET body == SnapshotHeader(v) \o MicrovmStateSerialize(m, vmap, v).words
    IN body \o <<Crc(body)>>

\* Snapshot::load(reader, snapshot_len, version_map): the checksum is the last
\* of the snapshot_len words and covers the words before it; then the magic,
\* the data version and the versioned payload are read.
SnapshotLoad(file, snapshot_len, vmap) ==
    IF snapshot_len < 1 \/ snapshot_len > Len(file)
    THEN [ok |-> FALSE, error |-> "InvalidSnapshotSize", state |-> NoState]
    ELSE LET raw == SubSeq(file, 1, snapshot_len - 1)
             stored == file[snapshot_len]
         IN IF Crc(raw) # stored
            THEN [ok |-> FALSE, error |-> "Crc64", state |-> NoState]
            ELSE IF Len(raw) < 2 \/ raw[1] # SNAPSHOT_MAGIC
            THEN [ok |-> FALSE, error |-> "InvalidMagic", state |-> NoState]
            ELSE IF raw[2] < 1 \/ raw[2] > latest_version(vmap)
            THEN [ok |-> FALSE, error |-> "InvalidDataVersion", state |-> NoState]
            ELSE LET de == MicrovmStateDeserialize(
                               SubSeq(raw, 3, Len(raw)), vmap, raw[2])
                 IN IF de.ok
                    THEN [ok |-> TRUE, error |-> "", state |-> de.state]
                    ELSE [ok |-> FALSE, error |-> "Versionize", state |-> NoState]

\* ------------------------------------------------------------------- state
VARIABLES
    guest_memory,           \* vmm.guest_memory(): the live guest RAM, by chunk
    dirty,                  \* the dirty log the virtualization layer keeps
    devices,                \* vmm.mmio_device_manager: the attached devices
    mem_file,               \* the file at params.mem_file_path
    snapshot_file,          \* the file at params.snapshot_path
    pc,                     \* the step the running call is at, or "idle"
    params,                 \* the call, and the params read at its start
    version,                \* params.version, as snapshot_state_to_file gets it
    version_map,            \* the VersionMap of the running build
    microvm_state,          \* the MicrovmState saved or loaded by the call
    dirty_bitmap,           \* the bitmap get_dirty_bitmap returned
    cursor,                 \* chunks dumped / words of the state file written
    snapshot_data_version,  \* the data version snapshot_state_to_file resolved
    restored_memory,        \* the GuestMemoryMmap guest_memory_from_file made
    result,                 \* what the call returned (at pc = "done")
    built,                  \* what build_microvm_from_snapshot was handed
    events,                 \* the I/O steps of the running call, in order
    last_create,            \* snapshot type of the last create, if it succeeded
    mem_changed,            \* the guest wrote memory since that create
    mem_track,              \* track_dirty_pages as GuestMemoryMmap::restore got it
    err,                    \* an error value handed to Display::fmt
    message                 \* the text fmt wrote for it

vars == <<guest_memory, dirty, devices, mem_file, snapshot_file, pc, params,
          version, version_map, microvm_state, dirty_bitmap, cursor,
          snapshot_data_version, restored_memory, result, built, events,
          last_create, mem_changed, mem_track, err, message>>

vmm_vars == <<guest_memory, dirty, devices>>

display_vars == <<err, message>>

\* No error value is being formatted.
NoError == [family |-> "none", variant |-> "", inner_variant |-> "",
            inner |-> "", n |-> 0]

NoParams == [call |-> "none", snapshot_type |-> "Full",
             enable_diff_snapshots |-> FALSE]

NoResult == [kind |-> "none", inner |-> "", n |-> 0]

OkResult == [kind |-> "Ok", inner |-> "", n |-> 0]

ErrResult(k, i, n) == [kind |-> k, inner |-> i, n |-> n]

NoBuilt == [invoked |-> FALSE, state |-> NoState, memory |-> <<>>,
            track_dirty_pages |-> FALSE]

\* mem_size_mib(vmm.guest_memory())
mem_size_mib == Len(guest_memory) \div UnitsPerMiB

\* device_manager.used_irqs_count(): every MMIO device holds one IRQ.
DeviceCount(d) ==
    Len(d.block_devices) + Len(d.net_devices) + Len(d.vsock_device)
    + Len(d.balloon_device)

used_irqs_count == DeviceCount(devices)

\* vmm.save_state(): the aggregate of the paused VM (one vCPU, whose CPUID
\* leaf 0 names vendor 1; one memory region covering all of guest RAM).
SavedState ==
    [vm_info |-> [mem_size_mib |-> mem_size_mib],
     memory_state |-> <<Len(guest_memory)>>,
     vm_state |-> 0,
     vcpu_states |-> <<1>>,
     device_states |-> devices]

\* The device configurations a VM is started with.
DeviceConfig(nblock, balloon) ==
    [block_devices |-> Ones(nblock), net_devices |-> <<>>,
     vsock_device |-> <<>>,
     balloon_device |-> IF balloon THEN <<1>> ELSE <<>>]

DeviceConfigs ==
    {DeviceConfig(1, TRUE),
     DeviceConfig(FC_V0_23_MAX_DEVICES, FALSE),
     DeviceConfig(FC_V0_23_MAX_DEVICES + 1, FALSE)}

\* A snapshot state file left at snapshot_path by an earlier snapshot of a
\* larger VM: valid, and longer than any state file this VM writes.
EarlierState ==
    [vm_info |-> [mem_size_mib |-> 1], memory_state |-> <<UnitsPerMiB>>,
     vm_state |-> 0, vcpu_states |-> <<1>>,
     device_states |-> [block_devices |-> Ones(FC_V0_23_MAX_DEVICES),
                        net_devices |-> <<1, 1>>, vsock_device |-> <<1>>,
                        balloon_device |-> <<>>]]

EarlierSnapshotFile == SnapshotWords(EarlierState, <<1>>, 1)

\* A memory file left at mem_file_path by an earlier snapshot of a larger VM.
EarlierMemFile == Ones((MaxMemMiB + 1) * UnitsPerMiB)

Init ==
    /\ guest_memory \in {Ones(n * UnitsPerMiB) : n \in 1..MaxMemMiB}
    /\ dirty = DOMAIN guest_memory
    /\ devices \in DeviceConfigs
    /\ mem_file \in {Absent, File(EarlierMemFile)}
    /\ snapshot_file \in {Absent, File(EarlierSnapshotFile)}
    /\ pc = "idle"
    /\ params = NoParams
    /\ version = <<>>
    /\ version_map \in VersionMaps
    /\ microvm_state = NoState
    /\ dirty_bitmap = {}
    /\ cursor = 0
    /\ snapshot_data_version = 0
    /\ restored_memory = <<>>
    /\ result = NoResult
    /\ built = NoBuilt
    /\ events = <<>>
    /\ last_create = "none"
    /\ mem_changed = FALSE
    /\ err = NoError
    /\ message = <<>>
    /\ mem_track = FALSE

\* -------------------------------------------------------- create_snapshot
\* Mutant: the memory file is opened without truncate.
OpenMemFileKeeping(file) == IF file.exists THEN file ELSE File(<<>>)

\* OpenOptions write+create+truncate (snapshot_memory_to_file): whatever the
\* path held is gone.
OpenMemFile(file) == File(<<>>)

\* OpenOptions create+write, no truncate (snapshot_state_to_file): an existing
\* file keeps its contents and its length; writing starts at offset 0.
OpenSnapshotFile(file) == IF file.exists THEN file ELSE File(<<>>)

\* file.set_len((mem_size_mib * 1024 * 1024) as u64)
MemFileLen(size_mib) == size_mib * UnitsPerMiB

\* dump: chunk i of guest memory goes to its offset in the file.
DumpChunk(file, memory, i) == WriteAt(file, i - 1, <<memory[i]>>)

\* dump_dirty: chunk i is written only when its bit is set in the bitmap.
DumpDirtyChunk(file, memory, bitmap, i) ==
    IF i \in bitmap THEN WriteAt(file, i - 1, <<memory[i]>>) ELSE file

\* The match of snapshot_memory_to_file on the snapshot type.
AfterSetLen(snapshot_type) ==
    IF snapshot_type = "Diff" THEN "get_dirty_bitmap" ELSE "dump"

\* Mutant: the memory step is left out.
AfterSaveStateSkippingMemory == "state_open"

\* create_snapshot: the step that follows vmm.save_state().
AfterSaveState == "mem_open"

\* Mutant: the result of snapshot_memory_to_file is dropped.
AfterSnapshotMemoryUnchecked(ok) == "state_open"

\* create_snapshot: the step that follows snapshot_memory_to_file, by its
\* result (the ? operator returns on an error).
AfterSnapshotMemory(ok) == IF ok THEN "state_open" ELSE "done"

\* Mutant: the limit itself is rejected.
validate_devices_number_off_by_one(device_number) ==
    IF device_number >= FC_V0_23_MAX_DEVICES
    THEN [kind |-> "TooManyDevices", inner |-> "", n |-> device_number]
    ELSE [kind |-> "Ok", inner |-> "", n |-> 0]

\* validate_devices_number
validate_devices_number(device_number) ==
    IF device_number > FC_V0_23_MAX_DEVICES
    THEN ErrResult("TooManyDevices", "", device_number)
    ELSE OkResult

\* Mutant: a tag the table does not know falls back to the latest version.
ResolveDataVersionLenient(ver, vmap, device_number) ==
    IF ver # <<>> /\ FC_VERSION_TO_SNAP_VERSION(ver[1]) = <<1>>
    THEN LET checked == validate_devices_number(device_number)
         IN [result |-> checked,
             version |-> IF checked = OkResult THEN 1 ELSE 0]
    ELSE IF ver # <<>> /\ FC_VERSION_TO_SNAP_VERSION(ver[1]) # <<>>
    THEN [result |-> OkResult, version |-> FC_VERSION_TO_SNAP_VERSION(ver[1])[1]]
    ELSE [result |-> OkResult, version |-> latest_version(vmap)]

\* The match of snapshot_state_to_file that translates params.version to the
\* snapshot data version.
ResolveDataVersion(ver, vmap, device_number) ==
    IF ver # <<>>
    THEN LET found == FC_VERSION_TO_SNAP_VERSION(ver[1])
         IN IF found = <<FC_V0_23_SNAP_VERSION>>
            THEN LET checked == validate_devices_number(device_number)
                 IN IF checked = OkResult
                    THEN [result |-> OkResult, version |-> FC_V0_23_SNAP_VERSION]
                    ELSE [result |-> checked, version |-> 0]
            ELSE IF found # <<>>
            THEN [result |-> OkResult, version |-> found[1]]
            ELSE [result |-> ErrResult("InvalidVersion", "", 0), version |-> 0]
    ELSE [result |-> OkResult, version |-> latest_version(vmap)]

\* The create call ends with result r.
Finish(r) ==
    /\ pc' = "done"
    /\ result' = r

Log(e) == events' = events \o e

\* create_snapshot is called on the paused VM.  params.snapshot_type is drawn
\* here; params.version is drawn where the call hands it to
\* snapshot_state_to_file, the one function that reads it.
StartCreate(t) ==
    /\ pc = "idle"
    /\ pc' = "save_state"
    /\ params' = [call |-> "create", snapshot_type |-> t,
                  enable_diff_snapshots |-> FALSE]
    /\ mem_changed' = FALSE
    /\ UNCHANGED <<vmm_vars, mem_file, snapshot_file, version, version_map,
                   microvm_state,
                   dirty_bitmap, cursor, snapshot_data_version,
                   restored_memory, result, built, events, last_create>>
    /\ UNCHANGED display_vars
    /\ UNCHANGED mem_track

SaveState(ok) ==
    /\ pc = "save_state"
    /\ Log(<<"save_state">>)
    /\ IF ok
       THEN /\ microvm_state' = SavedState
            /\ pc' = AfterSaveState
            /\ UNCHANGED result
       ELSE /\ Finish(ErrResult("MicrovmState", "SaveVcpuState", 0))
            /\ UNCHANGED microvm_state
    /\ UNCHANGED <<vmm_vars, mem_file, snapshot_file, params, version, version_map,
                   dirty_bitmap, cursor, snapshot_data_version,
                   restored_memory, built, last_create, mem_changed>>
    /\ UNCHANGED display_vars
    /\ UNCHANGED mem_track

MemOpen(ok) ==
    /\ pc = "mem_open"
    /\ IF ok
       THEN /\ mem_file' = OpenMemFile(mem_file)
            /\ Log(<<"mem_open">>)
            /\ pc' = "mem_set_len"
            /\ UNCHANGED result
       ELSE /\ Finish(ErrResult("MemoryBackingFile", "open", 0))
            /\ UNCHANGED <<mem_file, events>>
    /\ UNCHANGED <<vmm_vars, snapshot_file, params, version, version_map, microvm_state,
                   dirty_bitmap, cursor, snapshot_data_version,
                   restored_memory, built, last_create, mem_changed>>
    /\ UNCHANGED display_vars
    /\ UNCHANGED mem_track

MemSetLen(ok) ==
    /\ pc = "mem_set_len"
    /\ IF ok
       THEN /\ mem_file' = File(SetLen(mem_file.data, MemFileLen(mem_size_mib)))
            /\ Log(<<"mem_set_len">>)
            /\ pc' = AfterSetLen(params.snapshot_type)
            /\ UNCHANGED result
       ELSE /\ result' = ErrResult("MemoryBackingFile", "set_len", 0)
            /\ pc' = AfterSnapshotMemory(FALSE)
            /\ Log(<<"mem_close">>)
            /\ UNCHANGED mem_file
    /\ cursor' = 0
    /\ UNCHANGED <<vmm_vars, snapshot_file, params, version, version_map, microvm_state,
                   dirty_bitmap, snapshot_data_version, restored_memory, built,
                   last_create, mem_changed>>
    /\ UNCHANGED display_vars
    /\ UNCHANGED mem_track

\* vmm.get_dirty_bitmap(): the log is handed out and starts afresh.
GetDirtyBitmap(ok) ==
    /\ pc = "get_dirty_bitmap"
    /\ IF ok
       THEN /\ dirty_bitmap' = dirty
            /\ dirty' = {}
            /\ Log(<<"get_dirty_bitmap">>)
            /\ pc' = "dump"
            /\ UNCHANGED result
       ELSE /\ result' = ErrResult("DirtyBitmap", "", 0)
            /\ pc' = AfterSnapshotMemory(FALSE)
            /\ Log(<<"mem_close">>)
            /\ UNCHANGED <<dirty_bitmap, dirty>>
    /\ UNCHANGED <<guest_memory, devices, mem_file, snapshot_file, params, version,
                   version_map, microvm_state, cursor, snapshot_data_version,
                   restored_memory, built, last_create, mem_changed>>
    /\ UNCHANGED display_vars
    /\ UNCHANGED mem_track

\* One chunk of dump / dump_dirty; after the last one the function returns
\* and the file is closed.
Dump(ok) ==
    /\ pc = "dump"
    /\ IF ok
       THEN /\ mem_file' = File(
                           IF params.snapshot_type = "Diff"
                           THEN DumpDirtyChunk(mem_file.data, guest_memory,
                                               dirty_bitmap, cursor + 1)
                           ELSE DumpChunk(mem_file.data, guest_memory, cursor + 1))
            /\ cursor' = cursor + 1
            /\ IF cursor + 1 = Len(guest_memory)
               THEN /\ pc' = AfterSnapshotMemory(TRUE)
                    /\ Log(<<"dump", "mem_close">>)
               ELSE /\ pc' = "dump"
                    /\ Log(<<"dump">>)
            /\ UNCHANGED result
       ELSE /\ result' = ErrResult("Memory", "WriteMemory", 0)
            /\ pc' = AfterSnapshotMemory(FALSE)
            /\ Log(<<"mem_close">>)
            /\ UNCHANGED <<mem_file, cursor>>
    /\ UNCHANGED <<vmm_vars, snapshot_file, params, version, version_map, microvm_state,
                   dirty_bitmap, snapshot_data_version, restored_memory, built,
                   last_create, mem_changed>>
    /\ UNCHANGED display_vars
    /\ UNCHANGED mem_track

\* snapshot_state_to_file(microvm_state, snapshot_path, version, version_map,
\* device_manager) is entered, and opens the file.
StateOpen(v, ok) ==
    /\ pc = "state_open"
    \* the table names no data version the build's version map lacks
    /\ v # <<>> /\ FC_VERSION_TO_SNAP_VERSION(v[1]) # <<>>
          => FC_VERSION_TO_SNAP_VERSION(v[1])[1] <= latest_version(version_map)
    /\ version' = v
    /\ IF ok
       THEN /\ snapshot_file' = OpenSnapshotFile(snapshot_file)
            /\ Log(<<"state_open">>)
            /\ pc' = "resolve_version"
            /\ UNCHANGED result
       ELSE /\ Finish(ErrResult("SnapshotBackingFile", "open", 0))
            /\ UNCHANGED <<snapshot_file, events>>
    /\ cursor' = 0
    /\ UNCHANGED <<vmm_vars, mem_file, params, version_map, microvm_state,
                   dirty_bitmap, snapshot_data_version, restored_memory, built,
                   last_create, mem_changed>>
    /\ UNCHANGED display_vars
    /\ UNCHANGED mem_track

ResolveVersion ==
    /\ pc = "resolve_version"
    /\ LET r == ResolveDataVersion(version, version_map, used_irqs_count)
       IN IF r.result = OkResult
          THEN /\ snapshot_data_version' = r.version
               /\ pc' = "save_header"
               /\ UNCHANGED <<result, events>>
          ELSE /\ Finish(r.result)
               /\ Log(<<"state_close">>)
               /\ UNCHANGED snapshot_data_version
    /\ UNCHANGED <<vmm_vars, mem_file, snapshot_file, params, version, version_map,
                   microvm_state, dirty_bitmap, cursor, restored_memory, built,
                   last_create, mem_changed>>
    /\ UNCHANGED display_vars
    /\ UNCHANGED mem_track

\* Snapshot::save, first write: the magic and the data version.
SaveHeader(ok) ==
    /\ pc = "save_header"
    /\ IF ok
       THEN /\ snapshot_file' =
                   File(WriteAt(snapshot_file.data, cursor,
                                SnapshotHeader(snapshot_data_version)))
            /\ cursor' = cursor + Len(SnapshotHeader(snapshot_data_version))
            /\ pc' = "save_payload"
            /\ UNCHANGED <<result, events>>
       ELSE /\ Finish(ErrResult("SerializeMicrovmState", "Io", 0))
            /\ Log(<<"state_close">>)
            /\ UNCHANGED <<snapshot_file, cursor>>
    /\ UNCHANGED <<vmm_vars, mem_file, params, version, version_map, microvm_state,
                   dirty_bitmap, snapshot_data_version, restored_memory, built,
                   last_create, mem_changed>>
    /\ UNCHANGED display_vars
    /\ UNCHANGED mem_track

\* Snapshot::save, second write: the versioned encoding of the state.
SavePayload(ok) ==
    /\ pc = "save_payload"
    /\ LET ser == MicrovmStateSerialize(microvm_state, version_map,
                                        snapshot_data_version)
       IN IF ok /\ ser.ok
          THEN /\ snapshot_file' = File(WriteAt(snapshot_file.data, cursor,
                                             ser.words))
               /\ cursor' = cursor + Len(ser.words)
               /\ pc' = "save_crc"
               /\ UNCHANGED <<result, events>>
          ELSE /\ Finish(ErrResult("SerializeMicrovmState",
                                   IF ser.ok THEN "Io" ELSE "Versionize", 0))
               /\ Log(<<"state_close">>)
               /\ UNCHANGED <<snapshot_file, cursor>>
    /\ UNCHANGED <<vmm_vars, mem_file, params, version, version_map, microvm_state,
                   dirty_bitmap, snapshot_data_version, restored_memory, built,
                   last_create, mem_changed>>
    /\ UNCHANGED display_vars
    /\ UNCHANGED mem_track

\* Snapshot::save, last write: the checksum of what this call wrote.
SaveCrc(ok) ==
    /\ pc = "save_crc"
    /\ IF ok
       THEN /\ snapshot_file' =
                   File(WriteAt(snapshot_file.data, cursor,
                                <<Crc(SubSeq(snapshot_file.data, 1, cursor))>>))
            /\ cursor' = cursor + 1
            /\ Finish(OkResult)
       ELSE /\ Finish(ErrResult("SerializeMicrovmState", "Io", 0))
            /\ UNCHANGED <<snapshot_file, cursor>>
    /\ Log(<<"state_close">>)
    /\ UNCHANGED <<vmm_vars, mem_file, params, version, version_map, microvm_state,
                   dirty_bitmap, snapshot_data_version, restored_memory, built,
                   last_create, mem_changed>>
    /\ UNCHANGED display_vars
    /\ UNCHANGED mem_track

\* ----------------------------------------------------- restore_from_snapshot
\* Mutant: restore_from_snapshot goes on to the next call after an error.
AfterRestoreStepUnchecked(fn, ok) ==
    IF fn = "snapshot_state_from_file" THEN "r_vendor"
    ELSE IF fn = "validate_x86_64_cpu_vendor" THEN "r_mem_open"
    ELSE IF fn = "guest_memory_from_file" THEN "r_build"
    ELSE "done"

\* Mutant: the memory file is mapped before the CPU vendor is checked.
RestoreOrderMemoryFirst ==
    <<"snapshot_state_from_file", "guest_memory_from_file",
      "validate_x86_64_cpu_vendor", "build_microvm_from_snapshot">>

\* restore_from_snapshot calls, in this order, the four functions below; each
\* call but the last is followed by the ? operator.
RestoreOrder ==
    <<"snapshot_state_from_file", "validate_x86_64_cpu_vendor",
      "guest_memory_from_file", "build_microvm_from_snapshot">>

\* The first step of each of them.
FirstStep(fn) ==
    CASE fn = "snapshot_state_from_file" -> "r_open"
      [] fn = "validate_x86_64_cpu_vendor" -> "r_vendor"
      [] fn = "guest_memory_from_file" -> "r_mem_open"
      [] fn = "build_microvm_from_snapshot" -> "r_build"

\* Where restore_from_snapshot goes when function fn has returned: on to the
\* next call, or out on an error and after the last call.
AfterRestoreStep(fn, ok) ==
    LET k == CHOOSE i \in 1..Len(RestoreOrder) : RestoreOrder[i] = fn
    IN IF ok /\ k < Len(RestoreOrder) THEN FirstStep(RestoreOrder[k + 1])
       ELSE "done"

\* Host CPUID leaf 0 as the restoring host reports it: 0 stands for a leaf
\* that cannot be read, 1 and 2 for two vendors.
HostVendors == 0..2

\* validate_x86_64_cpu_vendor.  Indexing vcpu_states[0] of an empty vector
\* panics.
validate_x86_64_cpu_vendor(state, host_vendor_id) ==
    IF host_vendor_id = 0
    THEN ErrResult("CpuVendorMismatch", "Failed to read vendor from CPUID.", 0)
    ELSE IF Len(state.vcpu_states) = 0
    THEN [kind |-> "panic", inner |-> "index out of bounds", n |-> 0]
    ELSE IF state.vcpu_states[1] = 0
    THEN ErrResult("CpuVendorMismatch", "Failed to read vendor from CPUID.", 0)
    ELSE IF host_vendor_id # state.vcpu_states[1]
    THEN ErrResult("CpuVendorMismatch", "Host CPU vendor id, Snapshot CPU vendor id",
                   10 * host_vendor_id + state.vcpu_states[1])
    ELSE OkResult

RECURSIVE SumSeq(_)
SumSeq(s) == IF s = <<>> THEN 0 ELSE Head(s) + SumSeq(Tail(s))

\* GuestMemoryMmap::restore(file, state, track): the regions of the descriptor
\* are mapped from the file, one after the other; a file that does not hold
\* them cannot be mapped.
RestoreMemory(file, memory_state) ==
    IF SumSeq(memory_state) > Len(file)
    THEN [ok |-> FALSE, memory |-> <<>>]
    ELSE [ok |-> TRUE, memory |-> SubSeq(file, 1, SumSeq(memory_state))]

\* restore_from_snapshot is called: let track_dirty_pages =
\* params.enable_diff_snapshots.
StartRestore(track) ==
    /\ pc = "idle"
    /\ pc' = FirstStep(RestoreOrder[1])
    /\ params' = [call |-> "restore", snapshot_type |-> "Full",
                  enable_diff_snapshots |-> track]
    /\ UNCHANGED <<vmm_vars, mem_file, snapshot_file, version, version_map,
                   microvm_state,
                   dirty_bitmap, cursor, snapshot_data_version,
                   restored_memory, result, built, events, last_create,
                   mem_changed>>
    /\ UNCHANGED display_vars
    /\ UNCHANGED mem_track

\* File::open(snapshot_path)
ROpen(ok) ==
    /\ pc = "r_open"
    /\ IF ok /\ snapshot_file.exists
       THEN /\ pc' = "r_stat"
            /\ Log(<<"state_open">>)
            /\ UNCHANGED result
       ELSE /\ Finish(ErrResult("SnapshotBackingFile", "open", 0))
            /\ UNCHANGED events
    /\ UNCHANGED <<vmm_vars, mem_file, snapshot_file, params, version,
                   version_map, microvm_state, dirty_bitmap, cursor,
                   snapshot_data_version, restored_memory, built, last_create,
                   mem_changed>>
    /\ UNCHANGED display_vars
    /\ UNCHANGED mem_track

\* std::fs::metadata(snapshot_path).len()
RStat(ok) ==
    /\ pc = "r_stat"
    /\ IF ok
       THEN /\ cursor' = Len(snapshot_file.data)
            /\ pc' = "r_load"
            /\ Log(<<"state_stat">>)
            /\ UNCHANGED result
       ELSE /\ Finish(ErrResult("SnapshotBackingFileMetadata", "stat", 0))
            /\ UNCHANGED <<cursor, events>>
    /\ UNCHANGED <<vmm_vars, mem_file, snapshot_file, params, version, version_map,
                   microvm_state, dirty_bitmap, snapshot_data_version,
                   restored_memory, built, last_create, mem_changed>>
    /\ UNCHANGED display_vars
    /\ UNCHANGED mem_track

\* Snapshot::load(&mut snapshot_reader, snapshot_len, version_map)
RLoad ==
    /\ pc = "r_load"
    /\ LET loaded == SnapshotLoad(snapshot_file.data, cursor, version_map)
       IN IF loaded.ok
          THEN /\ microvm_state' = loaded.state
               /\ pc' = AfterRestoreStep("snapshot_state_from_file", TRUE)
               /\ Log(<<"state_parsed">>)
               /\ UNCHANGED result
          ELSE /\ result' = ErrResult("DeserializeMicrovmState", loaded.error, 0)
               /\ pc' = AfterRestoreStep("snapshot_state_from_file",
                                         FALSE)
               /\ UNCHANGED <<microvm_state, events>>
    /\ UNCHANGED <<vmm_vars, mem_file, snapshot_file, params, version, version_map,
                   dirty_bitmap, cursor, snapshot_data_version,
                   restored_memory, built, last_create, mem_changed>>
    /\ UNCHANGED display_vars
    /\ UNCHANGED mem_track

RVendor(host_vendor_id) ==
    /\ pc = "r_vendor"
    /\ LET checked == validate_x86_64_cpu_vendor(microvm_state, host_vendor_id)
       IN IF checked = OkResult
          THEN /\ pc' = AfterRestoreStep("validate_x86_64_cpu_vendor", TRUE)
               /\ Log(<<"vendor_checked">>)
               /\ UNCHANGED result
          ELSE /\ result' = checked
               /\ pc' = AfterRestoreStep("validate_x86_64_cpu_vendor", FALSE)
               /\ UNCHANGED events
    /\ UNCHANGED <<vmm_vars, mem_file, snapshot_file, params, version, version_map,
                   microvm_state, dirty_bitmap, cursor, snapshot_data_version,
                   restored_memory, built, last_create, mem_changed>>
    /\ UNCHANGED display_vars
    /\ UNCHANGED mem_track

\* File::open(mem_file_path)
RMemOpen(ok) ==
    /\ pc = "r_mem_open"
    /\ IF ok /\ mem_file.exists
       THEN /\ pc' = "r_mem_restore"
            /\ Log(<<"mem_open">>)
            /\ UNCHANGED result
       ELSE /\ result' = ErrResult("MemoryBackingFile", "open", 0)
            /\ pc' = AfterRestoreStep("guest_memory_from_file", FALSE)
            /\ UNCHANGED events
    /\ UNCHANGED <<vmm_vars, mem_file, snapshot_file, params, version, version_map,
                   microvm_state, dirty_bitmap, cursor, snapshot_data_version,
                   restored_memory, built, last_create, mem_changed>>
    /\ UNCHANGED display_vars
    /\ UNCHANGED mem_track

\* GuestMemoryMmap::restore(&mem_file, mem_state, track_dirty_pages)
RMemRestore(ok) ==
    /\ pc = "r_mem_restore"
    /\ LET mapped == RestoreMemory(mem_file.data, microvm_state.memory_state)
       IN IF ok /\ mapped.ok
          THEN /\ restored_memory' = mapped.memory
               /\ mem_track' = params.enable_diff_snapshots
               /\ pc' = AfterRestoreStep("guest_memory_from_file", TRUE)
               /\ Log(<<"mem_mapped">>)
               /\ UNCHANGED result
          ELSE /\ result' = ErrResult("DeserializeMemory", "FileHandle", 0)
               /\ pc' = AfterRestoreStep("guest_memory_from_file", FALSE)
               /\ UNCHANGED <<restored_memory, events, mem_track>>
    /\ UNCHANGED <<vmm_vars, mem_file, snapshot_file, params, version, version_map,
                   microvm_state, dirty_bitmap, cursor, snapshot_data_version,
                   built, last_create, mem_changed>>
    /\ UNCHANGED display_vars

\* builder::build_microvm_from_snapshot(event_manager, microvm_state,
\* guest_memory, track_dirty_pages, seccomp_filter).map_err(BuildMicroVm)
RBuild(ok) ==
    /\ pc = "r_build"
    /\ built' = [invoked |-> TRUE, state |-> microvm_state,
                 memory |-> restored_memory,
                 track_dirty_pages |-> params.enable_diff_snapshots]
    /\ Log(<<"build">>)
    /\ result' = IF ok THEN OkResult
                 ELSE ErrResult("BuildMicroVm", "StartMicrovmError", 0)
    /\ pc' = AfterRestoreStep("build_microvm_from_snapshot", ok)
    /\ UNCHANGED <<vmm_vars, mem_file, snapshot_file, params, version, version_map,
                   microvm_state, dirty_bitmap, cursor, snapshot_data_version,
                   restored_memory, last_create, mem_changed>>
    /\ UNCHANGED display_vars
    /\ UNCHANGED mem_track

\* The call has returned; the caller goes on.
Return ==
    /\ pc = "done"
    /\ pc' = "idle"
    /\ last_create' = IF params.call = "create"
                      THEN IF result = OkResult THEN params.snapshot_type
                           ELSE "none"
                      ELSE last_create
    /\ params' = NoParams
    /\ version' = <<>>
    /\ microvm_state' = NoState
    /\ dirty_bitmap' = {}
    /\ cursor' = 0
    /\ snapshot_data_version' = 0
    /\ restored_memory' = <<>>
    /\ result' = NoResult
    /\ built' = NoBuilt
    /\ events' = <<>>
    /\ mem_track' = FALSE
    /\ UNCHANGED <<vmm_vars, mem_file, snapshot_file, version_map, mem_changed>>
    /\ UNCHANGED display_vars

\* The running guest writes value b to chunk i; the dirty log records it.
GuestWrite(i, b) ==
    /\ pc = "idle"
    /\ i \in 1..Len(guest_memory)
    /\ guest_memory' = [guest_memory EXCEPT ![i] = b]
    /\ dirty' = dirty \cup {i}
    /\ mem_changed' = TRUE
    /\ UNCHANGED <<devices, mem_file, snapshot_file, pc, params, version, version_map,
                   microvm_state, dirty_bitmap, cursor, snapshot_data_version,
                   restored_memory, result, built, events, last_create>>
    /\ UNCHANGED display_vars
    /\ UNCHANGED mem_track

Next ==
    \/ \E t \in {"Full", "Diff"} : StartCreate(t)
    \/ \E ok \in BOOLEAN : SaveState(ok)
    \/ \E ok \in BOOLEAN : MemOpen(ok)
    \/ \E ok \in BOOLEAN : MemSetLen(ok)
    \/ \E ok \in BOOLEAN : GetDirtyBitmap(ok)
    \/ \E ok \in BOOLEAN : Dump(ok)
    \/ \E v \in Versions, ok \in BOOLEAN : StateOpen(v, ok)
    \/ ResolveVersion
    \/ \E ok \in BOOLEAN : SaveHeader(ok)
    \/ \E ok \in BOOLEAN : SavePayload(ok)
    \/ \E ok \in BOOLEAN : SaveCrc(ok)
    \/ \E track \in BOOLEAN : StartRestore(track)
    \/ \E ok \in BOOLEAN : ROpen(ok)
    \/ \E ok \in BOOLEAN : RStat(ok)
    \/ RLoad
    \/ \E host \in HostVendors : RVendor(host)
    \/ \E ok \in BOOLEAN : RMemOpen(ok)
    \/ \E ok \in BOOLEAN : RMemRestore(ok)
    \/ \E ok \in BOOLEAN : RBuild(ok)
    \/ Return
    \/ \E i \in 1..(MaxMemMiB * UnitsPerMiB), b \in 0..MaxByte : GuestWrite(i, b)

Spec == Init /\ [][Next]_vars

\* ------------------------------------- Versionize round trip (the unit test)
\* test_microvmstate_versionize: a MicrovmState is serialized into a buffer at
\* a data version of a version map and read back at the same version.
VersionizeStates ==
    {[vm_info |-> [mem_size_mib |-> n], memory_state |-> <<n * UnitsPerMiB>>,
      vm_state |-> 0, vcpu_states |-> <<1>>,
      device_states |-> [block_devices |-> Ones(nb), net_devices |-> Ones(nn),
                         vsock_device |-> Ones(nv),
                         balloon_device |-> Ones(nbal)]] :
       n \in 1..MaxMemMiB, nb \in 0..2, nn \in 0..1, nv \in 0..1,
       nbal \in 0..1}

InitVersionize ==
    /\ guest_memory = Ones(UnitsPerMiB)
    /\ dirty = {}
    /\ devices = DeviceConfig(1, TRUE)
    /\ mem_file = Absent
    /\ snapshot_file = Absent
    /\ pc = "v_serialize"
    /\ params = NoParams
    /\ version = <<>>
    /\ version_map \in VersionMaps
    /\ microvm_state \in VersionizeStates
    /\ dirty_bitmap = {}
    /\ cursor = 0
    /\ snapshot_data_version \in 1..latest_version(version_map)
    /\ restored_memory = <<>>
    /\ result = NoResult
    /\ built = NoBuilt
    /\ events = <<>>
    /\ last_create = "none"
    /\ mem_changed = FALSE
    /\ err = NoError
    /\ message = <<>>
    /\ mem_track = FALSE

\* microvm_state.serialize(&mut buf, &version_map, data_version)
VSerialize ==
    /\ pc = "v_serialize"
    /\ LET ser == MicrovmStateSerialize(microvm_state, version_map,
                                        snapshot_data_version)
       IN IF ser.ok
          THEN /\ snapshot_file' = File(ser.words)
               /\ pc' = "v_deserialize"
               /\ UNCHANGED result
          ELSE /\ result' = ErrResult("Versionize", "Semantic", 0)
               /\ pc' = "v_done"
               /\ UNCHANGED snapshot_file
    /\ UNCHANGED <<vmm_vars, mem_file, params, version, version_map,
                   microvm_state, dirty_bitmap, cursor, snapshot_data_version,
                   restored_memory, built, events, last_create, mem_changed>>
    /\ UNCHANGED display_vars
    /\ UNCHANGED mem_track

\* MicrovmState::deserialize(&mut buf, &version_map, data_version)
VDeserialize ==
    /\ pc = "v_deserialize"
    /\ LET de == MicrovmStateDeserialize(snapshot_file.data, version_map,
                                         snapshot_data_version)
       IN /\ built' = [NoBuilt EXCEPT !.state = de.state]
          /\ result' = IF de.ok THEN OkResult
                       ELSE ErrResult("Versionize", "Deserialize", 0)
    /\ pc' = "v_done"
    /\ UNCHANGED <<vmm_vars, mem_file, snapshot_file, params, version,
                   version_map, microvm_state, dirty_bitmap, cursor,
                   snapshot_data_version, restored_memory, events,
                   last_create, mem_changed>>
    /\ UNCHANGED display_vars
    /\ UNCHANGED mem_track

NextVersionize == VSerialize \/ VDeserialize

SpecVersionize == InitVersionize /\ [][NextVersionize]_vars

\* ------------------------------------------- CPU vendor check on any state
\* The states a snapshot state file can hold: any number of vCPU states from
\* none to two, each with a CPUID whose leaf 0 names vendor 1 or 2 or cannot
\* be read (0).
VcpuStateVectors ==
    {<<>>} \cup {<<a>> : a \in 0..2} \cup {<<a, b>> : a \in 0..2, b \in 0..2}

VendorStates ==
    {[vm_info |-> [mem_size_mib |-> 1], memory_state |-> <<UnitsPerMiB>>,
      vm_state |-> 0, vcpu_states |-> vs,
      device_states |-> DeviceConfig(nb, FALSE)] :
       vs \in VcpuStateVectors, nb \in 0..1}

\* restore_from_snapshot has opened and measured a state file that holds a
\* valid snapshot of one of these states.
InitVendor ==
    /\ guest_memory = Ones(UnitsPerMiB)
    /\ dirty = {}
    /\ devices = DeviceConfig(1, FALSE)
    /\ mem_file = File(Ones(UnitsPerMiB))
    /\ version_map \in VersionMaps
    /\ \E s \in VendorStates :
          snapshot_file = File(SnapshotWords(s, version_map,
                                             latest_version(version_map)))
    /\ pc = "r_load"
    /\ params \in {[call |-> "restore", snapshot_type |-> "Full",
                     enable_diff_snapshots |-> track] : track \in BOOLEAN}
    /\ version = <<>>
    /\ microvm_state = NoState
    /\ dirty_bitmap = {}
    /\ cursor = Len(snapshot_file.data)
    /\ snapshot_data_version = 0
    /\ restored_memory = <<>>
    /\ result = NoResult
    /\ built = NoBuilt
    /\ events = <<"state_open", "state_stat">>
    /\ last_create = "none"
    /\ mem_changed = FALSE
    /\ err = NoError
    /\ message = <<>>
    /\ mem_track = FALSE

NextVendor ==
    \/ RLoad
    \/ \E host \in HostVendors : RVendor(host)

SpecVendor == InitVendor /\ [][NextVendor]_vars

\* --------------------------------------------------------- Display of errors
\* A message is the sequence of the pieces write! emits: the literal text of
\* the format string, and each argument rendered with {} (Display) or {:?}
\* (Debug).
Lit(t) == [fmt |-> "literal", text |-> t, num |-> 0]

Shown(x) == [fmt |-> "{}", text |-> x, num |-> 0]

Debugged(x) == [fmt |-> "{:?}", text |-> x, num |-> 0]

ShownNumber(k) == [fmt |-> "{}", text |-> "", num |-> k]

\* The variants of the three error enums, with the type each one wraps.
MicrovmStateErrorVariants ==
    {<<"InvalidInput", "none">>, <<"NotAllowed", "String">>,
     <<"RestoreDevices", "DevicePersistError">>,
     <<"RestoreVcpuState", "vcpu::Error">>,
     <<"RestoreVmState", "vm::Error">>, <<"SaveVcpuState", "vcpu::Error">>,
     <<"SaveVmState", "vm::Error">>, <<"SignalVcpu", "vcpu::Error">>,
     <<"UnexpectedVcpuResponse", "none">>}

CreateSnapshotErrorVariants ==
    {<<"DirtyBitmap", "none">>, <<"InvalidVersion", "none">>,
     <<"InvalidVmState", "vm::Error">>,
     <<"Memory", "memory_snapshot::Error">>,
     <<"MemoryBackingFile", "io::Error">>,
     <<"MicrovmState", "MicrovmStateError">>,
     <<"SerializeMicrovmState", "snapshot::Error">>,
     <<"SnapshotBackingFile", "io::Error">>, <<"TooManyDevices", "usize">>}

LoadSnapshotErrorVariants ==
    {<<"BuildMicroVm", "StartMicrovmError">>,
     <<"DeserializeMemory", "memory_snapshot::Error">>,
     <<"DeserializeMicrovmState", "snapshot::Error">>,
     <<"MemoryBackingFile", "io::Error">>, <<"ResumeMicroVm", "VmmError">>,
     <<"SnapshotBackingFile", "io::Error">>,
     <<"SnapshotBackingFileMetadata", "io::Error">>,
     <<"CpuVendorMismatch", "String">>}

\* Two values of each wrapped type (those the tests build, and one more).
InnerValues(type) ==
    CASE type = "none" -> {""}
      [] type = "String" -> {"", "text"}
      [] type = "DevicePersistError" -> {"MmioTransport", "Block"}
      [] type = "vcpu::Error" -> {"VcpuTlsInit", "VcpuTlsNotPresent"}
      [] type = "vm::Error" -> {"NotEnoughMemorySlots", "VmFd"}
      [] type = "memory_snapshot::Error" -> {"WriteMemory", "FileHandle"}
      [] type = "io::Error" -> {"os error 0", "os error 2"}
      [] type = "snapshot::Error" -> {"InvalidMagic", "Io"}
      [] type = "StartMicrovmError" -> {"InitrdLoad", "NetDeviceNotConfigured"}
      [] type = "VmmError" -> {"VcpuResume", "VcpuPause"}
      [] OTHER -> {}

ErrorValue(family, variant, inner_variant, inner, k) ==
    [family |-> family, variant |-> variant, inner_variant |-> inner_variant,
     inner |-> inner, n |-> k]

MicrovmStateErrors ==
    UNION {{ErrorValue("MicrovmStateError", v[1], "", i, 0) :
               i \in InnerValues(v[2])} : v \in MicrovmStateErrorVariants}

CreateSnapshotErrors ==
    UNION {IF v[2] = "MicrovmStateError"
           THEN {ErrorValue("CreateSnapshotError", v[1], e.variant, e.inner, 0) :
                    e \in MicrovmStateErrors}
           ELSE IF v[2] = "usize"
           THEN {ErrorValue("CreateSnapshotError", v[1], "", "", k) :
                    k \in {0, FC_V0_23_MAX_DEVICES + 1}}
           ELSE {ErrorValue("CreateSnapshotError", v[1], "", i, 0) :
                    i \in InnerValues(v[2])} :
           v \in CreateSnapshotErrorVariants}

LoadSnapshotErrors ==
    UNION {{ErrorValue("LoadSnapshotError", v[1], "", i, 0) :
               i \in InnerValues(v[2])} : v \in LoadSnapshotErrorVariants}

Errors == MicrovmStateErrors \cup CreateSnapshotErrors \cup LoadSnapshotErrors

\* impl Display for MicrovmStateError
MicrovmStateErrorDisplay(variant, inner) ==
    CASE variant = "InvalidInput" ->
            <<Lit("Provided MicroVM state is invalid.")>>
      [] variant = "NotAllowed" ->
            <<Lit("Operation not allowed: "), Shown(inner)>>
      [] variant = "RestoreDevices" ->
            <<Lit("Cannot restore devices. Error: "), Debugged(inner)>>
      [] variant = "RestoreVcpuState" ->
            <<Lit("Cannot restore Vcpu state. Error: "), Debugged(inner)>>
      [] variant = "RestoreVmState" ->
            <<Lit("Cannot restore Vm state. Error: "), Debugged(inner)>>
      [] variant = "SaveVcpuState" ->
            <<Lit("Cannot save Vcpu state. Error: "), Debugged(inner)>>
      [] variant = "SaveVmState" ->
            <<Lit("Cannot save Vm state. Error: "), Debugged(inner)>>
      [] variant = "SignalVcpu" ->
            <<Lit("Cannot signal Vcpu: "), Debugged(inner)>>
      [] variant = "UnexpectedVcpuResponse" ->
            <<Lit("Vcpu is in unexpected state.")>>

\* impl Display for CreateSnapshotError
CreateSnapshotErrorDisplay(e) ==
    CASE e.variant = "DirtyBitmap" -> <<Lit("Cannot get dirty bitmap")>>
      [] e.variant = "InvalidVersion" ->
            <<Lit("Cannot translate microVM version to snapshot data version")>>
      [] e.variant = "InvalidVmState" ->
            <<Lit("Cannot save Vm state. Error: "), Debugged(e.inner)>>
      [] e.variant = "Memory" ->
            <<Lit("Cannot write memory file: "), Debugged(e.inner)>>
      [] e.variant = "MemoryBackingFile" ->
            <<Lit("Cannot open memory file: "), Debugged(e.inner)>>
      [] e.variant = "MicrovmState" ->
            <<Lit("Cannot save microvm state: ")>>
            \o MicrovmStateErrorDisplay(e.inner_variant, e.inner)
      [] e.variant = "SerializeMicrovmState" ->
            <<Lit("Cannot serialize MicrovmState: "), Debugged(e.inner)>>
      [] e.variant = "SnapshotBackingFile" ->
            <<Lit("Cannot open snapshot file: "), Debugged(e.inner)>>
      [] e.variant = "TooManyDevices" ->
            <<Lit("Too many devices attached: "), ShownNumber(e.n),
              Lit(". The maximum number allowed for the snapshot data version requested is "),
              ShownNumber(FC_V0_23_MAX_DEVICES), Lit(".")>>

\* impl Display for LoadSnapshotError
LoadSnapshotErrorDisplay(e) ==
    CASE e.variant = "BuildMicroVm" ->
            <<Lit("Cannot build a microVM from snapshot: "), Shown(e.inner)>>
      [] e.variant = "DeserializeMemory" ->
            <<Lit("Cannot deserialize memory: "), Shown(e.inner)>>
      [] e.variant = "DeserializeMicrovmState" ->
            <<Lit("Cannot deserialize MicrovmState: "), Debugged(e.inner)>>
      [] e.variant = "MemoryBackingFile" ->
            <<Lit("Cannot open memory file: "), Shown(e.inner)>>
      [] e.variant = "ResumeMicroVm" ->
            <<Lit("Failed to resume Vm after loading snapshot: "),
              Shown(e.inner)>>
      [] e.variant = "SnapshotBackingFile" ->
            <<Lit("Cannot open snapshot file: "), Shown(e.inner)>>
      [] e.variant = "SnapshotBackingFileMetadata" ->
            <<Lit("Cannot retrieve file metadata: "), Shown(e.inner)>>
      [] e.variant = "CpuVendorMismatch" ->
            <<Lit("Snapshot cpu vendor mismatch: "), Shown(e.inner)>>

\* format!("{}", err)
Display(e) ==
    CASE e.family = "MicrovmStateError" ->
            MicrovmStateErrorDisplay(e.variant, e.inner)
      [] e.family = "CreateSnapshotError" -> CreateSnapshotErrorDisplay(e)
      [] e.family = "LoadSnapshotError" -> LoadSnapshotErrorDisplay(e)

\* An error value of one of the three enums is about to be formatted.
InitDisplay ==
    /\ guest_memory = Ones(UnitsPerMiB)
    /\ dirty = {}
    /\ devices = DeviceConfig(1, FALSE)
    /\ mem_file = Absent
    /\ snapshot_file = Absent
    /\ pc = "fmt"
    /\ params = NoParams
    /\ version = <<>>
    /\ version_map = VersionMapOfLen(1)
    /\ microvm_state = NoState
    /\ dirty_bitmap = {}
    /\ cursor = 0
    /\ snapshot_data_version = 0
    /\ restored_memory = <<>>
    /\ result = NoResult
    /\ built = NoBuilt
    /\ events = <<>>
    /\ last_create = "none"
    /\ mem_changed = FALSE
    /\ err \in Errors
    /\ message = <<>>
    /\ mem_track = FALSE

\* <E as Display>::fmt for an error of the given enum.
Fmt(family) ==
    /\ pc = "fmt"
    /\ err.family = family
    /\ message' = Display(err)
    /\ pc' = "fmt_done"
    /\ UNCHANGED <<vmm_vars, mem_file, snapshot_file, params, version,
                   version_map, microvm_state, dirty_bitmap, cursor,
                   snapshot_data_version, restored_memory, result, built,
                   events, last_create, mem_changed, err>>
    /\ UNCHANGED mem_track

ErrorFamilies ==
    {"MicrovmStateError", "CreateSnapshotError", "LoadSnapshotError"}

NextDisplay == \E family \in ErrorFamilies : Fmt(family)

SpecDisplay == InitDisplay /\ [][NextDisplay]_vars

\* ------------------------------------------------------------------ claims
InCreate == params.call = "create"

InRestore == params.call = "restore"

CreateDone == InCreate /\ pc = "done"

RestoreDone == InRestore /\ pc = "done"

Has(e) == \E i \in 1..Len(events) : events[i] = e

\* The running create call got as far as opening the snapshot state file.
StateFileOpened == InCreate /\ Has("state_open")

\* The I/O steps of a complete snapshot_memory_to_file, after save_state.
MemoryEvents(snapshot_type, chunks) ==
    <<"save_state", "mem_open", "mem_set_len">>
    \o (IF snapshot_type = "Diff" THEN <<"get_dirty_bitmap">> ELSE <<>>)
    \o [i \in 1..chunks |-> "dump"] \o <<"mem_close">>

IsPrefix(a, b) == Len(a) <= Len(b) /\ SubSeq(b, 1, Len(a)) = a

\* The memory backing file holds the complete dump of the running call.
MemoryDumpComplete ==
    /\ IsPrefix(MemoryEvents(params.snapshot_type, Len(guest_memory)), events)
    /\ mem_file.exists
    /\ Len(mem_file.data) = Len(guest_memory)
    /\ \A i \in 1..Len(guest_memory) :
          params.snapshot_type = "Full" \/ i \in dirty_bitmap
             => mem_file.data[i] = guest_memory[i]

\* C1: after a successful create_snapshot(Full) and then a successful
\* create_snapshot(Diff) to the same memory path, every chunk of the memory
\* file equals the live guest memory at diff-create time.
C1_DiffOverFullEqualsLiveMemory ==
    CreateDone /\ params.snapshot_type = "Diff" /\ result = OkResult
       /\ last_create = "Full"
    => mem_file.exists /\ mem_file.data = guest_memory

\* C2: restore_from_snapshot right after a successful create_snapshot(Full)
\* on the same two paths parses the state file, and hands the builder the
\* state that was saved and a memory identical to the guest memory.
C2_FullThenRestoreRoundTrip ==
    RestoreDone /\ last_create = "Full" /\ ~mem_changed
    => /\ result.kind # "DeserializeMicrovmState"
       /\ built.invoked => /\ built.state = SavedState
                           /\ built.memory = guest_memory

\* The data version the claims expect create_snapshot to resolve.
ExpectedDataVersion ==
    IF version = <<>> THEN <<latest_version(version_map)>>
    ELSE FC_VERSION_TO_SNAP_VERSION(version[1])

\* C3: whenever the resolved data version is V0 (= 1), from the tag "0.23" or
\* from latest_version() with params.version None, more than
\* FC_V0_23_MAX_DEVICES devices make create_snapshot return
\* TooManyDevices(n) without writing the state.
C3_V0AlwaysValidatesDeviceCount ==
    StateFileOpened /\ ExpectedDataVersion = <<1>>
       /\ used_irqs_count > FC_V0_23_MAX_DEVICES
    => \/ pc = "resolve_version"
       \/ /\ pc = "done"
          /\ result = ErrResult("TooManyDevices", "", used_irqs_count)
          /\ cursor = 0

\* C4: with params.version = "0.23", create_snapshot that reaches the version
\* resolution returns TooManyDevices(n) exactly when n = used_irqs_count()
\* exceeds 16 - IRQ_BASE.
C4_V0_23RejectsExactlyAboveLimit ==
    CreateDone /\ StateFileOpened /\ version = <<"0.23">>
    => /\ result.kind = "TooManyDevices" <=> used_irqs_count > 16 - IRQ_BASE
       /\ result.kind = "TooManyDevices" => result.n = used_irqs_count

C4_Witness ==
    /\ CreateDone /\ StateFileOpened /\ version = <<"0.23">>
    /\ used_irqs_count = 16 - IRQ_BASE + 1
    /\ result = ErrResult("TooManyDevices", "", 16 - IRQ_BASE + 1)

\* A memory step of create_snapshot failed.
MemoryStepFailed ==
    InCreate /\ result.kind \in {"MemoryBackingFile", "DirtyBitmap", "Memory"}

\* C5: in create_snapshot the memory file is opened, resized, fully written and
\* closed before the state file is opened, and the state file is not opened
\* when the memory step failed.
C5_MemoryFileBeforeStateFile ==
    /\ StateFileOpened => MemoryDumpComplete
    /\ MemoryStepFailed => ~Has("state_open") /\ pc = "done"

C5_Witness ==
    /\ StateFileOpened /\ MemoryDumpComplete
    /\ params.snapshot_type = "Diff"
    /\ pc = "resolve_version"

\* The I/O steps of a complete restore_from_snapshot.
RestoreEvents ==
    <<"state_open", "state_stat", "state_parsed", "vendor_checked",
      "mem_open", "mem_mapped", "build">>

\* C6: restore_from_snapshot parses the state file, checks the CPU vendor,
\* opens and maps the memory file and invokes the builder, in this order; the
\* builder is not invoked unless the memory was mapped.
C6_RestoreOrder ==
    InRestore
    => /\ IsPrefix(events, RestoreEvents)
       /\ built.invoked => Has("mem_mapped") /\ restored_memory # <<>>
       /\ pc \in {"r_mem_open", "r_mem_restore", "r_build"}
            => Has("state_parsed") /\ Has("vendor_checked")

C6_Witness ==
    RestoreDone /\ result = OkResult /\ built.invoked /\ events = RestoreEvents

\* C7: at every point of a create_snapshot call that has touched the memory
\* file, a state file that parses as a valid snapshot comes with a memory
\* file holding the complete dump of this call.
C7_ValidStateImpliesCompleteMemory ==
    InCreate /\ Has("mem_open") /\ snapshot_file.exists
       /\ SnapshotLoad(snapshot_file.data, Len(snapshot_file.data),
                       version_map).ok
    => MemoryDumpComplete

\* C8: the snapshot is saved at latest_version() when params.version is None
\* and at the table's data version when it is a known tag; an unknown tag
\* gives InvalidVersion and nothing is written to the state file.
C8_DataVersionResolution ==
    StateFileOpened
    => /\ pc \in {"save_header", "save_payload", "save_crc"}
            => <<snapshot_data_version>> = ExpectedDataVersion
       /\ pc \in {"save_payload", "save_crc"} \/ (pc = "done" /\ cursor > 0)
            => <<snapshot_file.data[2]>> = ExpectedDataVersion
       /\ pc = "done" /\ ExpectedDataVersion = <<>>
            => result = ErrResult("InvalidVersion", "", 0) /\ cursor = 0

C8_Witness ==
    /\ CreateDone /\ result = OkResult /\ version = <<"0.24">>
    /\ snapshot_file.data[2] = 2

\* A state is representable at a data version when the DeviceStates schema of
\* that version holds every device it has.
Representable(m, vmap, v) ==
    Len(m.device_states.balloon_device) = 0 \/ type_version(vmap, v) >= 2

\* C9: a MicrovmState serialized at a data version at which it is
\* representable deserializes to an equal state, and serializing it at a data
\* version whose DeviceStates schema lacks one of its devices is an error.
C9_VersionizeRoundTrip ==
    pc = "v_done"
    => IF Representable(microvm_state, version_map, snapshot_data_version)
       THEN /\ result = OkResult
            /\ built.state.vm_info = microvm_state.vm_info
            /\ built.state.device_states = microvm_state.device_states
            /\ built.state = microvm_state
       ELSE result.kind = "Versionize" /\ ~snapshot_file.exists

C9_Witness ==
    /\ pc = "v_done" /\ result = OkResult
    /\ snapshot_data_version = 2
    /\ Len(microvm_state.device_states.block_devices) = 1
    /\ Len(microvm_state.device_states.net_devices) = 1
    /\ Len(microvm_state.device_states.vsock_device) = 1
    /\ Len(microvm_state.device_states.balloon_device) = 1
    /\ built.state = microvm_state

\* C10: the memory file is truncated and set to mem_size_mib MiB before any
\* chunk is written, and keeps exactly that length from the resize on.
C10_MemFileLength ==
    InCreate
    => /\ events # <<>> /\ events[Len(events)] = "mem_open"
            => mem_file = File(<<>>)
       /\ Has("dump") => IsPrefix(<<"save_state", "mem_open", "mem_set_len">>,
                                  events)
       /\ Has("mem_set_len")
            => mem_file.exists
               /\ Len(mem_file.data) = mem_size_mib * UnitsPerMiB

C10_Witness ==
    /\ CreateDone /\ params.snapshot_type = "Diff" /\ Has("mem_set_len")
    /\ result.kind = "Memory"
    /\ Len(mem_file.data) = mem_size_mib * UnitsPerMiB

\* C11: after a successful create_snapshot the file at snapshot_path is
\* exactly the stream this call wrote (header, payload, CRC) and has its
\* length, whatever the path held before the call.
C11_StateFileIsExactlyWhatWasWritten ==
    CreateDone /\ result = OkResult
    => /\ snapshot_file.exists
       /\ Len(snapshot_file.data) = cursor
       /\ snapshot_file.data = SnapshotWords(microvm_state, version_map,
                                             snapshot_data_version)

\* validate_x86_64_cpu_vendor has returned, or has ended otherwise.
VendorCheckEnded ==
    InRestore /\ Has("state_parsed") /\ pc # "r_vendor"

\* C12: for every state deserialization can yield, zero vCPU states
\* included, validate_x86_64_cpu_vendor ends with a value: Ok only when the
\* leaf-0 vendor of vcpu_states[0] can be read, else CpuVendorMismatch; it
\* never ends in a panic.
C12_VendorCheckEndsWithValue ==
    VendorCheckEnded
    => /\ result.kind \in {"none", "CpuVendorMismatch"}
       /\ result.kind = "none"
            => /\ Has("vendor_checked")
               /\ microvm_state.vcpu_states # <<>>
               /\ microvm_state.vcpu_states[1] # 0
       /\ result.kind = "CpuVendorMismatch"
            => \/ result.inner = "Failed to read vendor from CPUID."
               \/ /\ microvm_state.vcpu_states # <<>>
                  /\ result.n % 10 = microvm_state.vcpu_states[1]
                  /\ result.n \div 10 # result.n % 10

\* The message m of error e includes the rendering of the inner error: the
\* Display of a wrapped MicrovmStateError, else the argument piece.
IncludesInner(m, e) ==
    IF e.inner_variant # ""
    THEN Len(m) > 1
         /\ SubSeq(m, 2, Len(m))
               = MicrovmStateErrorDisplay(e.inner_variant, e.inner)
    ELSE e.inner # "" \/ e.variant = "TooManyDevices"
         => \E i \in 1..Len(m) :
               /\ m[i].fmt # "literal"
               /\ m[i].text = e.inner /\ m[i].num = e.n

\* Two error values of different variants that wrap the same inner error.
OtherVariantSameInner(a, b) ==
    /\ <<a.family, a.variant>> # <<b.family, b.variant>>
    /\ a.inner = b.inner /\ a.inner_variant = b.inner_variant /\ a.n = b.n

\* C13: every variant of the three error enums renders to a non-empty
\* message that starts with its own text, includes the rendering of the inner
\* error it wraps, and differs from the message of every other variant of the
\* three enums wrapping the same inner error.
C13_DisplayDistinctPerVariant ==
    pc = "fmt_done"
    => /\ message # <<>>
       /\ message[1].fmt = "literal" /\ message[1].text # ""
       /\ IncludesInner(message, err)
       /\ \A other \in Errors :
             OtherVariantSameInner(other, err) => Display(other) # message

\* C14: when create_snapshot returns TooManyDevices(n), the call has neither
\* opened, truncated or written the memory backing file nor opened or created
\* the snapshot state file.
C14_DeviceCheckBeforeAnyFile ==
    CreateDone /\ result.kind = "TooManyDevices"
    => /\ ~Has("mem_open") /\ ~Has("mem_set_len") /\ ~Has("dump")
       /\ ~Has("state_open")

\* The steps of the running create call that succeeded, in order.
StepsDone == SelectSeq(events, LAMBDA e : e \notin {"mem_close", "state_close"})

\* The steps of a create call in which every step succeeds, up to the open of
\* the state file.
CreateSteps ==
    <<"save_state", "mem_open", "mem_set_len">>
    \o (IF params.snapshot_type = "Diff" THEN <<"get_dirty_bitmap">> ELSE <<>>)
    \o [i \in 1..Len(guest_memory) |-> "dump"] \o <<"state_open">>

DumpsDone == Cardinality({i \in 1..Len(events) : events[i] = "dump"})

\* The result the first step that did not succeed stands for.
FirstFailureKind ==
    IF microvm_state = NoState THEN "MicrovmState"
    ELSE IF ~Has("mem_set_len") THEN "MemoryBackingFile"
    ELSE IF params.snapshot_type = "Diff" /\ ~Has("get_dirty_bitmap")
    THEN "DirtyBitmap"
    ELSE IF DumpsDone < Len(guest_memory) THEN "Memory"
    ELSE IF ~Has("state_open") THEN "SnapshotBackingFile"
    ELSE IF ExpectedDataVersion = <<>> THEN "InvalidVersion"
    ELSE IF version = <<"0.23">> /\ used_irqs_count > FC_V0_23_MAX_DEVICES
    THEN "TooManyDevices"
    ELSE IF cursor < Len(SnapshotWords(microvm_state, version_map,
                                       ExpectedDataVersion[1]))
            \/ ~MicrovmStateSerialize(microvm_state, version_map,
                                      ExpectedDataVersion[1]).ok
    THEN "SerializeMicrovmState"
    ELSE "Ok"

\* C15: create_snapshot is fail-stop with a fixed error per step: the result
\* is the error of the first step that failed, no later step has run, Ok is
\* returned only when every step succeeded, a failed save_state leaves both
\* files untouched, and what earlier steps wrote stays on disk.
C15_CreateFailStop ==
    CreateDone
    => /\ result.kind = FirstFailureKind
       /\ IsPrefix(StepsDone, CreateSteps)
       /\ result.kind = "MicrovmState"
            => ~Has("mem_open") /\ ~Has("state_open")
       /\ result.kind \in {"MemoryBackingFile", "DirtyBitmap", "Memory"}
            => ~Has("state_open")
       /\ Has("mem_open") => mem_file.exists
       /\ Has("state_open") => snapshot_file.exists /\ MemoryDumpComplete
       /\ result = OkResult
            => /\ StepsDone = CreateSteps
               /\ cursor = Len(SnapshotWords(microvm_state, version_map,
                                              snapshot_data_version))

C15_Witness ==
    /\ CreateDone /\ params.snapshot_type = "Diff"
    /\ result = ErrResult("SerializeMicrovmState", "Versionize", 0)
    /\ StepsDone = CreateSteps
    /\ mem_file.exists /\ snapshot_file.exists

\* The error of the first step of restore_from_snapshot that did not succeed.
FirstRestoreFailureKinds ==
    IF ~Has("state_open") THEN {"SnapshotBackingFile"}
    ELSE IF ~Has("state_stat") THEN {"SnapshotBackingFileMetadata"}
    ELSE IF ~Has("state_parsed") THEN {"DeserializeMicrovmState"}
    ELSE IF ~Has("vendor_checked") THEN {"CpuVendorMismatch"}
    ELSE IF ~Has("mem_open") THEN {"MemoryBackingFile"}
    ELSE IF ~Has("mem_mapped") THEN {"DeserializeMemory"}
    ELSE {"BuildMicroVm", "Ok"}

RestoreFailStop ==
    /\ InRestore => result.kind # "ResumeMicroVm" /\ ~Has("resume")
    /\ RestoreDone
         => /\ result.kind \in FirstRestoreFailureKinds
            /\ IsPrefix(events, RestoreEvents)
            /\ result = OkResult => events = RestoreEvents
            /\ result.kind = "BuildMicroVm" => built.invoked
    /\ InRestore /\ built.invoked
         => /\ built.track_dirty_pages = params.enable_diff_snapshots
            /\ mem_track = params.enable_diff_snapshots

\* During a restore call neither file changes.
RestoreLeavesFiles ==
    InRestore => UNCHANGED <<mem_file, snapshot_file>>

Zeros(n) == [i \in 1..n |-> 0]

\* From the open of the memory file on, the file holds nothing but zeros and
\* what this call dumped.
MemFileReplaced ==
    /\ mem_file.exists
    /\ Len(mem_file.data) \in {0, mem_size_mib * UnitsPerMiB}
    /\ \A i \in 1..Len(mem_file.data) :
          mem_file.data[i] =
             IF i <= DumpsDone
                /\ (params.snapshot_type = "Full" \/ i \in dirty_bitmap)
             THEN guest_memory[i] ELSE 0

DiffTruncatesBeforeBitmap ==
    InCreate
    => /\ Has("mem_open") => MemFileReplaced
       /\ Has("get_dirty_bitmap")
            => IsPrefix(<<"save_state", "mem_open", "mem_set_len",
                          "get_dirty_bitmap">>, events)
       /\ pc = "done" /\ result.kind = "DirtyBitmap"
            => /\ params.snapshot_type = "Diff"
               /\ events = <<"save_state", "mem_open", "mem_set_len",
                              "mem_close">>
               /\ mem_file = File(Zeros(mem_size_mib * UnitsPerMiB))

\* A create call that ends at save_state or at the open of the memory file
\* leaves the memory file as it was; every other step of the memory phase
\* works on the file the open has emptied.
EarlyFailureKeepsMemFile ==
    InCreate /\ pc \in {"save_state", "mem_open"} /\ pc' = "done"
    => UNCHANGED mem_file

\* C17: create_snapshot(Diff) truncates and resizes the memory file before it
\* requests the dirty bitmap; after a DirtyBitmap failure the file is all
\* zeros of mem_size_mib MiB, after a Memory failure it holds zeros and the
\* chunks this call wrote, and only a failure of save_state or of the open
\* leaves the earlier file intact.
C17_DiffFailureReplacesMemFile ==
    []DiffTruncatesBeforeBitmap /\ [][EarlyFailureKeepsMemFile]_vars

C17_Witness ==
    /\ CreateDone /\ params.snapshot_type = "Diff"
    /\ result.kind = "DirtyBitmap"
    /\ last_create = "Full" /\ guest_memory = Ones(Len(guest_memory))
    /\ mem_file = File(Zeros(mem_size_mib * UnitsPerMiB))

====
